---- MODULE Spec2Model ----
(***************************************************************************)
(* Alumni portal backend (server.js): the document store, the stateless    *)
(* session tokens, the authorization gate and the route handlers, as a     *)
(* state machine.  One action per route; a handler that awaits between     *)
(* computing a value and saving it (institution registration) is split at  *)
(* the save so that concurrent requests interleave.                        *)
(***************************************************************************)
EXTENDS Integers, Sequences, FiniteSets, Bags, TLC

VARIABLES universities, users, posts, workshops, comments, messages,
          nextId, inflight, tokens, now, last

store == <<universities, users, posts, workshops, comments, messages>>
vars == <<universities, users, posts, workshops, comments, messages,
          nextId, inflight, tokens, now, last>>

(***************************************************************************)
(* Bounds of the model.                                                    *)
(***************************************************************************)
MaxUsers == 2
MaxDocs == 1
MaxInflight == 2
MaxTokens == 1
MaxTicks == 2
MaxBulk == 51

(***************************************************************************)
(* Program constants.                                                      *)
(***************************************************************************)
ExpiresInDays == 30
DirectoryLimit == 50

\* The clock advances in steps of half a token lifetime.
TickDays == ExpiresInDays \div 2

(***************************************************************************)
(* JavaScript values.  A missing string input is Undefined; ids and        *)
(* numbers are tagged tuples so that null, NaN and malformed ids are       *)
(* values of the same shape.                                               *)
(***************************************************************************)
Undefined == "<undefined>"
Null == <<"null", 0>>
NaN == <<"NaN", 0>>
Num(n) == <<"num", n>>
UniversityId(i) == <<"University", i>>
UserId(i) == <<"User", i>>
PostId(i) == <<"Post", i>>
WorkshopId(i) == <<"Workshop", i>>
MalformedId == <<"malformed", 0>>
NullDoc == [null |-> TRUE]

Min(a, b) == IF a < b THEN a ELSE b
Reverse(s) == [i \in 1..Len(s) |-> s[Len(s) + 1 - i]]

(***************************************************************************)
(* Credential hasher (bcrypt): a digest is not the plaintext; hash and     *)
(* compare reject (throw) when the plaintext is not a string.  The random  *)
(* salt is left out: no handler reads it.                                  *)
(***************************************************************************)
Digest(password) == [alg |-> "bcrypt", of |-> password]
hashPasswordThrows(password) == password = Undefined
comparePasswordThrows(password, hash) == password = Undefined
comparePassword(password, hash) == hash.of = password

(***************************************************************************)
(* Session tokens (jsonwebtoken): signed with the server secret, expiring  *)
(* ExpiresInDays after issue.  A tampered token carries a signature that   *)
(* does not verify; a garbage token is no JWT at all.                      *)
(***************************************************************************)
generateToken(userId, t) ==
    [kind |-> "jwt", userId |-> userId, exp |-> t + ExpiresInDays, sig |-> "ok"]
NoToken == [kind |-> "undefined"]
EmptyToken == [kind |-> "empty"]
GarbageToken == [kind |-> "garbage"]
Tamper(tok) == [tok EXCEPT !.sig = "bad"]

\* jwt.verify: the signature matches and the token is not past its expiry.
jwtVerifies(tok, t) == tok.kind = "jwt" /\ tok.sig = "ok" /\ t < tok.exp

(***************************************************************************)
(* The Authorization header: absent, or the words that split(' ') yields.  *)
(***************************************************************************)
Word(w) == [kind |-> "word", text |-> w]
NoHeader == [absent |-> TRUE, parts |-> <<>>]
Header(parts) == [absent |-> FALSE, parts |-> parts]

\* req.headers.authorization?.split(' ')[1]
ExtractToken(header) ==
    IF header.absent \/ Len(header.parts) < 2 THEN NoToken ELSE header.parts[2]

Falsy(tok) == tok.kind \in {"undefined", "empty"}

authMiddlewareNoVerify(header, t) ==
    LET token == ExtractToken(header) IN
    IF Falsy(token)
    THEN [next |-> FALSE, status |-> 401, error |-> "No token provided", userId |-> Null]
    ELSE IF token.kind = "jwt"
    THEN [next |-> TRUE, status |-> 200, error |-> "", userId |-> token.userId]
    ELSE [next |-> FALSE, status |-> 401, error |-> "Invalid token", userId |-> Null]
authMiddlewareChecksStatus(header, t) ==
    LET token == ExtractToken(header) IN
    IF Falsy(token)
    THEN [next |-> FALSE, status |-> 401, error |-> "No token provided", userId |-> Null]
    ELSE IF /\ jwtVerifies(token, t)
            /\ ~\E i \in DOMAIN users : /\ users[i]._id = token.userId
                                       /\ users[i].status = "rejected"
    THEN [next |-> TRUE, status |-> 200, error |-> "", userId |-> token.userId]
    ELSE [next |-> FALSE, status |-> 401, error |-> "Invalid token", userId |-> Null]
\* The gate: next() is called with req.userId set, or a 401 is sent.
authMiddleware(header, t) ==
    LET token == ExtractToken(header) IN
    IF Falsy(token)
    THEN [next |-> FALSE, status |-> 401, error |-> "No token provided", userId |-> Null]
    ELSE IF jwtVerifies(token, t)
    THEN [next |-> TRUE, status |-> 200, error |-> "", userId |-> token.userId]
    ELSE [next |-> FALSE, status |-> 401, error |-> "Invalid token", userId |-> Null]

(***************************************************************************)
(* Slug derivation: name.toLowerCase().replace(/\s+/g, '_').               *)
(***************************************************************************)
IsSpace(c) == c \in {" ", "\t"}
toLowerCase(c) == CASE c = "A" -> "a" [] c = "B" -> "b" [] OTHER -> c

RECURSIVE ReplaceSpaceRuns(_, _)
ReplaceSpaceRuns(s, inRun) ==
    IF s = <<>> THEN <<>>
    ELSE IF IsSpace(Head(s))
         THEN (IF inRun THEN <<>> ELSE <<"_">>) \o ReplaceSpaceRuns(Tail(s), TRUE)
         ELSE <<Head(s)>> \o ReplaceSpaceRuns(Tail(s), FALSE)

SlugOf(name) ==
    ReplaceSpaceRuns([i \in 1..Len(name) |-> toLowerCase(name[i])], FALSE)

(***************************************************************************)
(* parseInt on a query-string value: leading whitespace skipped, then the  *)
(* longest run of decimal digits; NaN when there is none.                  *)
(***************************************************************************)
IsDigit(c) == c \in {"0", "1", "2", "3", "4", "5", "6", "7", "8", "9"}
DigitVal(c) ==
    CASE c = "0" -> 0 [] c = "1" -> 1 [] c = "2" -> 2 [] c = "3" -> 3 [] c = "4" -> 4
      [] c = "5" -> 5 [] c = "6" -> 6 [] c = "7" -> 7 [] c = "8" -> 8 [] c = "9" -> 9

RECURSIVE SkipSpaces(_)
SkipSpaces(s) ==
    IF s # <<>> /\ IsSpace(Head(s)) THEN SkipSpaces(Tail(s)) ELSE s

RECURSIVE ParseDigits(_, _, _)
ParseDigits(s, acc, seen) ==
    IF s # <<>> /\ IsDigit(Head(s))
    THEN ParseDigits(Tail(s), 10 * acc + DigitVal(Head(s)), TRUE)
    ELSE IF seen THEN Num(acc) ELSE NaN

parseInt(s) == ParseDigits(SkipSpaces(s), 0, FALSE)

(***************************************************************************)
(* Request inputs.                                                         *)
(***************************************************************************)
Emails == {"a@x", "b@x"}
Passwords == {"p1", "p2"}
Statuses == {"pending", "approved", "rejected"}
UniversityRefs == {UniversityId(1), UniversityId(2)}
Titles == {"t1", Undefined}

\* Institution names: case variants, a whitespace run, a literal underscore.
Names == {<<>>, <<"A">>, <<"a">>, <<"A", " ", "a">>, <<"a", " ", " ", "A">>,
          <<"a", "_", "a">>}

\* Ids a client can put in a route: stored or not, or no ObjectId at all.
UserIdParams == {UserId(i) : i \in 1..(MaxUsers + 1)} \cup {MalformedId}
PostIdParams == {PostId(i) : i \in 1..(MaxDocs + 1)} \cup {MalformedId}
WorkshopIdParams == {WorkshopId(i) : i \in 1..(MaxDocs + 1)} \cup {MalformedId}

\* Values of the graduationYear query parameter; a missing parameter and the
\* empty string are both falsy and both are <<>> here.
YearInputs ==
    {<<>>, <<"1">>, <<"1", "1">>, <<"1", "x">>, <<" ", "1">>, <<"x">>, <<"x", "1">>,
     <<" ">>}

\* The client holds at most MaxTokens of the tokens it has been sent: a new
\* token is added, or replaces one it held, or is discarded.
Keep(tok) ==
    IF Cardinality(tokens \cup {tok}) <= MaxTokens THEN {tokens \cup {tok}}
    ELSE {tokens} \cup {(tokens \ {old}) \cup {tok} : old \in tokens}

(***************************************************************************)
(* Authorization headers a client can send: none, an empty or a garbage    *)
(* credential, and for each token it holds the token itself, the token     *)
(* with a forged signature, and the token without a scheme word.           *)
(***************************************************************************)
Bearer(tok) == Header(<<Word("Bearer"), tok>>)
Headers ==
    {NoHeader, Bearer(EmptyToken), Bearer(GarbageToken)}
    \cup {Bearer(t) : t \in tokens}
    \cup {Bearer(Tamper(t)) : t \in tokens}
    \cup {Header(<<t>>) : t \in tokens}

\* The last request answered and its response.
Blank ==
    [route |-> "", header |-> NoHeader, entered |-> FALSE, status |-> 0,
     error |-> "", issued |-> NoToken, doc |-> NullDoc, id |-> Null,
     email |-> "", password |-> "", results |-> <<>>, input |-> <<>>]

Init ==
    /\ universities = <<>>
    /\ users = <<>>
    /\ posts = <<>>
    /\ workshops = <<>>
    /\ comments = <<>>
    /\ messages = <<>>
    /\ nextId = 1
    /\ inflight = EmptyBag
    /\ tokens = {}
    /\ now = 0
    /\ last = Blank

Tick ==
    /\ now < MaxTicks * TickDays
    /\ now' = now + TickDays
    /\ UNCHANGED <<store, nextId, inflight, tokens, last>>

(***************************************************************************)
(* Store helpers (mongoose): findById, findByIdAndUpdate with a body that  *)
(* is merged field by field into the stored document, findByIdAndDelete.   *)
(* An id that is no ObjectId fails the cast and the query throws.          *)
(***************************************************************************)
WellFormed(id) == id[1] # "malformed"

FindById(coll, id) ==
    LET found == SelectSeq(coll, LAMBDA d : d._id = id)
    IN IF found = <<>> THEN NullDoc ELSE found[1]

Merge(doc, body) ==
    [k \in DOMAIN doc |-> IF k \in DOMAIN body THEN body[k] ELSE doc[k]]

UpdateById(coll, id, body) ==
    [i \in DOMAIN coll |-> IF coll[i]._id = id THEN Merge(coll[i], body) ELSE coll[i]]

DeleteById(coll, id) == SelectSeq(coll, LAMBDA d : d._id # id)

\* The gate's refusal: the response is sent and next() is never called.
Denied(route, header, g) ==
    /\ ~g.next
    /\ last' = [Blank EXCEPT !.route = route, !.header = header,
                             !.status = g.status, !.error = g.error]
    /\ UNCHANGED <<store, nextId, inflight, tokens, now>>

\* The handler's response, after the gate let the request through.
Entered(route, header) ==
    [Blank EXCEPT !.route = route, !.header = header, !.entered = TRUE, !.status = 200]

CastError(route, header, id) ==
    [Entered(route, header) EXCEPT !.id = id, !.status = 500,
                                   !.error = "Cast to ObjectId failed"]

(***************************************************************************)
(* POST /api/university/register                                           *)
(***************************************************************************)
\* Up to the await of university.save(): validation, slug, digest.
RegisterBegin(name, email, password) ==
    IF name = <<>> \/ email = Undefined \/ password = Undefined
    THEN /\ last' = [Blank EXCEPT !.route = "university/register", !.entered = TRUE,
                                  !.status = 400, !.error = "All fields required"]
         /\ UNCHANGED <<store, nextId, inflight, tokens, now>>
    ELSE /\ BagCardinality(inflight) < MaxInflight
         /\ inflight' = inflight (+) SetToBag({[name |-> name, slug |-> SlugOf(name),
                                                email |-> email,
                                                password |-> Digest(password)]})
         /\ UNCHANGED <<store, nextId, tokens, now, last>>

\* The unique indexes of UniversitySchema: name, slug, email.
UniversityDuplicateEmailOnly(doc) ==
    \E i \in 1..Len(universities) : universities[i].email = doc.email
UniversityDuplicate(doc) ==
    \E i \in 1..Len(universities) :
        \/ universities[i].name = doc.name
        \/ universities[i].slug = doc.slug
        \/ universities[i].email = doc.email

\* university.save() and the response; the insert is atomic in the store.
RegisterSave(req) ==
    LET base == [Blank EXCEPT !.route = "university/register", !.entered = TRUE,
                              !.email = req.email, !.input = req.name]
    IN /\ BagIn(req, inflight)
       /\ inflight' = inflight (-) SetToBag({req})
       /\ IF UniversityDuplicate(req)
          THEN /\ last' = [base EXCEPT !.status = 500, !.error = "E11000 duplicate key"]
               /\ UNCHANGED <<store, nextId, tokens, now>>
          ELSE LET doc == [_id |-> UniversityId(Len(universities) + 1),
                           name |-> req.name, slug |-> req.slug,
                           email |-> req.email, password |-> req.password]
                   tok == generateToken(doc._id, now)
               IN /\ universities' = Append(universities, doc)
                  /\ tokens' \in Keep(tok)
                  /\ last' = [base EXCEPT !.status = 201, !.issued = tok, !.doc = doc]
                  /\ UNCHANGED <<users, posts, workshops, comments, messages,
                                 nextId, now>>

(***************************************************************************)
(* POST /api/university/login                                              *)
(***************************************************************************)
UniversityLogin(email, password) ==
    LET found == SelectSeq(universities, LAMBDA u : u.email = email)
        base == [Blank EXCEPT !.route = "university/login", !.entered = TRUE,
                              !.email = email, !.password = password]
    IN IF found = <<>>
       THEN /\ last' = [base EXCEPT !.status = 401, !.error = "Invalid credentials"]
            /\ UNCHANGED <<store, nextId, inflight, tokens, now>>
       ELSE IF comparePasswordThrows(password, found[1].password)
       THEN /\ last' = [base EXCEPT !.status = 500, !.error = "Illegal arguments"]
            /\ UNCHANGED <<store, nextId, inflight, tokens, now>>
       ELSE IF ~comparePassword(password, found[1].password)
       THEN /\ last' = [base EXCEPT !.status = 401, !.error = "Invalid credentials"]
            /\ UNCHANGED <<store, nextId, inflight, tokens, now>>
       ELSE LET tok == generateToken(found[1]._id, now)
            IN /\ tokens' \in Keep(tok)
               /\ last' = [base EXCEPT !.status = 200, !.issued = tok, !.doc = found[1]]
               /\ UNCHANGED <<store, nextId, inflight, now>>

(***************************************************************************)
(* POST /api/auth/signup                                                   *)
(***************************************************************************)
\* Request bodies: well-formed ones, with or without an extra status field,
\* and one body for each way the handler fails before the insert.
SignupBodies ==
    [email : Emails, password : {"p1"}, phone : {"555"},
     university : UniversityRefs, status : {Undefined, "approved"}]
    \cup [email : {Undefined}, password : {"p1"}, phone : {"555"},
          university : {UniversityId(1)}, status : {Undefined}]
    \cup [email : {"a@x"}, password : {Undefined}, phone : {"555"},
          university : {UniversityId(1)}, status : {Undefined}]
    \cup [email : {"a@x"}, password : {"p1"}, phone : {Undefined},
          university : {UniversityId(1)}, status : {Undefined}]

NewUserFromBody(body) ==
    [_id |-> UserId(Len(users) + 1), email |-> body.email,
     password |-> Digest(body.password), university |-> body.university,
     status |-> IF body.status = Undefined THEN "pending" ELSE body.status,
     graduationYear |-> Null]
\* new User({..., status: 'pending'}): the body's own status is never read.
NewUser(body) ==
    [_id |-> UserId(Len(users) + 1), email |-> body.email,
     password |-> Digest(body.password), university |-> body.university,
     status |-> "pending", graduationYear |-> Null]

Signup(body) ==
    LET base == [Blank EXCEPT !.route = "auth/signup", !.entered = TRUE,
                              !.input = body.status]
        fail(msg) ==
            /\ last' = [base EXCEPT !.status = 500, !.error = msg]
            /\ UNCHANGED <<store, nextId, inflight, tokens, now>>
    IN IF hashPasswordThrows(body.password) THEN fail("Illegal arguments")
       ELSE IF body.email = Undefined \/ body.phone = Undefined
       THEN fail("User validation failed")
       ELSE IF \E i \in 1..Len(users) : users[i].email = body.email
       THEN fail("E11000 duplicate key")
       ELSE LET user == NewUser(body)
                tok == generateToken(user._id, now)
            IN /\ Len(users) < MaxUsers
               /\ users' = Append(users, user)
               /\ tokens' \in Keep(tok)
               /\ last' = [base EXCEPT !.status = 201, !.issued = tok, !.doc = user]
               /\ UNCHANGED <<universities, posts, workshops, comments, messages,
                              nextId, inflight, now>>

(***************************************************************************)
(* POST /api/auth/login                                                    *)
(***************************************************************************)
LoginStatusFirst(email, password) ==
    LET found == SelectSeq(users, LAMBDA u : u.email = email)
        base == [Blank EXCEPT !.route = "auth/login", !.entered = TRUE,
                              !.email = email, !.password = password]
    IN IF found # <<>> /\ found[1].status = "rejected"
       THEN /\ last' = [base EXCEPT !.status = 403,
                                    !.error = "Your account has been rejected"]
            /\ UNCHANGED <<store, nextId, inflight, tokens, now>>
       ELSE IF found = <<>> \/ ~comparePassword(password, found[1].password)
       THEN /\ last' = [base EXCEPT !.status = 401, !.error = "Invalid credentials"]
            /\ UNCHANGED <<store, nextId, inflight, tokens, now>>
       ELSE LET tok == generateToken(found[1]._id, now)
            IN /\ tokens' \in Keep(tok)
               /\ last' = [base EXCEPT !.status = 200, !.issued = tok, !.doc = found[1]]
               /\ UNCHANGED <<store, nextId, inflight, now>>
Login(email, password) ==
    LET found == SelectSeq(users, LAMBDA u : u.email = email)
        base == [Blank EXCEPT !.route = "auth/login", !.entered = TRUE,
                              !.email = email, !.password = password]
    IN IF found = <<>>
       THEN /\ last' = [base EXCEPT !.status = 401, !.error = "Invalid credentials"]
            /\ UNCHANGED <<store, nextId, inflight, tokens, now>>
       ELSE IF comparePasswordThrows(password, found[1].password)
       THEN /\ last' = [base EXCEPT !.status = 500, !.error = "Illegal arguments"]
            /\ UNCHANGED <<store, nextId, inflight, tokens, now>>
       ELSE IF ~comparePassword(password, found[1].password)
       THEN /\ last' = [base EXCEPT !.status = 401, !.error = "Invalid credentials"]
            /\ UNCHANGED <<store, nextId, inflight, tokens, now>>
       ELSE IF found[1].status = "rejected"
       THEN /\ last' = [base EXCEPT !.status = 403,
                                    !.error = "Your account has been rejected"]
            /\ UNCHANGED <<store, nextId, inflight, tokens, now>>
       ELSE LET tok == generateToken(found[1]._id, now)
            IN /\ tokens' \in Keep(tok)
               /\ last' = [base EXCEPT !.status = 200, !.issued = tok, !.doc = found[1]]
               /\ UNCHANGED <<store, nextId, inflight, now>>

(***************************************************************************)
(* GET /api/user/profile, PUT /api/user/profile                            *)
(***************************************************************************)
GetProfile(header) ==
    LET g == authMiddleware(header, now)
        route == "GET user/profile"
    IN \/ Denied(route, header, g)
       \/ /\ g.next
          /\ last' = [Entered(route, header) EXCEPT
                         !.id = g.userId, !.doc = FindById(users, g.userId)]
          /\ UNCHANGED <<store, nextId, inflight, tokens, now>>

\* Request bodies of a profile update: any fields of the schema, unchecked.
ProfileBodies == {<<>>} \cup {("status" :> st) : st \in Statuses}

UpdateProfile(header, bodies) ==
    LET g == authMiddleware(header, now)
        route == "PUT user/profile"
    IN \/ Denied(route, header, g)
       \/ /\ g.next
          /\ \E body \in bodies :
                /\ users' = UpdateById(users, g.userId, body)
                /\ last' = [Entered(route, header) EXCEPT
                               !.id = g.userId, !.doc = FindById(users', g.userId)]
          /\ UNCHANGED <<universities, posts, workshops, comments, messages,
                         nextId, inflight, tokens, now>>

(***************************************************************************)
(* GET /api/admin/pending-approvals/:universityId,                         *)
(* PUT /api/admin/approve-user/:userId, PUT /api/admin/reject-user/:userId *)
(***************************************************************************)
PendingApprovals(header) ==
    LET g == authMiddleware(header, now)
        route == "GET admin/pending-approvals"
    IN \/ Denied(route, header, g)
       \/ /\ g.next
          /\ \E universityId \in UniversityRefs :
                last' = [Entered(route, header) EXCEPT
                            !.id = universityId,
                            !.results = SelectSeq(users, LAMBDA u :
                                           u.university = universityId
                                           /\ u.status = "pending")]
          /\ UNCHANGED <<store, nextId, inflight, tokens, now>>

\* findByIdAndUpdate(req.params.userId, {status}, {new: true}) and the response.
SetStatus(route, header, status) ==
    LET g == authMiddleware(header, now)
    IN \/ Denied(route, header, g)
       \/ /\ g.next
          /\ \E userId \in UserIdParams :
                IF ~WellFormed(userId)
                THEN /\ last' = CastError(route, header, userId)
                     /\ UNCHANGED users
                ELSE /\ users' = UpdateById(users, userId, "status" :> status)
                     /\ last' = [Entered(route, header) EXCEPT
                                    !.id = userId, !.doc = FindById(users', userId)]
          /\ UNCHANGED <<universities, posts, workshops, comments, messages,
                         nextId, inflight, tokens, now>>

ApproveUserAsReject(header) ==
    SetStatus("PUT admin/approve-user", header, "rejected")
ApproveUser(header) ==
    SetStatus("PUT admin/approve-user", header, "approved")

RejectUser(header) ==
    SetStatus("PUT admin/reject-user", header, "rejected")

(***************************************************************************)
(* POST /api/posts, PUT /api/posts/:postId, DELETE /api/posts/:postId      *)
(* Content documents (posts, events, comments, messages) draw their ids    *)
(* from one generator; the model creates at most MaxDocs of them and lets  *)
(* an event's attendee list grow to MaxDocs entries.                       *)
(***************************************************************************)
CreatePost(header) ==
    LET g == authMiddleware(header, now)
        route == "POST posts"
        user == FindById(users, g.userId)
    IN \/ Denied(route, header, g)
       \/ /\ g.next
          /\ \E title \in Titles :
                IF user = NullDoc
                THEN /\ last' = [Entered(route, header) EXCEPT !.status = 500,
                                    !.error = "Cannot read properties of null"]
                     /\ UNCHANGED <<posts, nextId>>
                ELSE IF title = Undefined
                THEN /\ last' = [Entered(route, header) EXCEPT !.status = 500,
                                    !.error = "Post validation failed"]
                     /\ UNCHANGED <<posts, nextId>>
                ELSE LET post == [_id |-> PostId(nextId), title |-> title,
                                  author |-> g.userId,
                                  university |-> user.university]
                     IN /\ nextId <= MaxDocs
                        /\ posts' = Append(posts, post)
                        /\ nextId' = nextId + 1
                        /\ last' = [Entered(route, header) EXCEPT !.status = 201,
                                       !.id = post._id, !.doc = post]
          /\ UNCHANGED <<universities, users, workshops, comments, messages,
                         inflight, tokens, now>>

\* Request bodies of a post update: any fields of the schema, unchecked.
PostBodies ==
    {<<>>, ("title" :> "t2"), ("university" :> UniversityId(2))}

UpdatePost(header) ==
    LET g == authMiddleware(header, now)
        route == "PUT posts"
    IN \/ Denied(route, header, g)
       \/ /\ g.next
          /\ \E postId \in PostIdParams, body \in PostBodies :
                IF ~WellFormed(postId)
                THEN /\ last' = CastError(route, header, postId)
                     /\ UNCHANGED posts
                ELSE /\ posts' = UpdateById(posts, postId, body)
                     /\ last' = [Entered(route, header) EXCEPT
                                    !.id = postId, !.doc = FindById(posts', postId)]
          /\ UNCHANGED <<universities, users, workshops, comments, messages,
                         nextId, inflight, tokens, now>>

DeletePostStrict(header) ==
    LET g == authMiddleware(header, now)
        route == "DELETE posts"
    IN \/ Denied(route, header, g)
       \/ /\ g.next
          /\ \E postId \in PostIdParams :
                IF ~WellFormed(postId)
                THEN /\ last' = CastError(route, header, postId)
                     /\ UNCHANGED posts
                ELSE IF FindById(posts, postId) = NullDoc
                THEN /\ last' = [Entered(route, header) EXCEPT !.id = postId,
                                    !.status = 404, !.error = "Post not found"]
                     /\ UNCHANGED posts
                ELSE /\ posts' = DeleteById(posts, postId)
                     /\ last' = [Entered(route, header) EXCEPT !.id = postId]
          /\ UNCHANGED <<universities, users, workshops, comments, messages,
                         nextId, inflight, tokens, now>>
DeletePost(header) ==
    LET g == authMiddleware(header, now)
        route == "DELETE posts"
    IN \/ Denied(route, header, g)
       \/ /\ g.next
          /\ \E postId \in PostIdParams :
                IF ~WellFormed(postId)
                THEN /\ last' = CastError(route, header, postId)
                     /\ UNCHANGED posts
                ELSE /\ posts' = DeleteById(posts, postId)
                     /\ last' = [Entered(route, header) EXCEPT !.id = postId]
          /\ UNCHANGED <<universities, users, workshops, comments, messages,
                         nextId, inflight, tokens, now>>

(***************************************************************************)
(* POST /api/comments                                                      *)
(***************************************************************************)
CreateComment(header) ==
    LET g == authMiddleware(header, now)
        route == "POST comments"
    IN \/ Denied(route, header, g)
       \/ /\ g.next
          /\ \E postId \in {PostId(1), MalformedId}, content \in {"c1", Undefined} :
                IF ~WellFormed(postId) \/ content = Undefined
                THEN /\ last' = [Entered(route, header) EXCEPT !.id = postId,
                                    !.status = 500,
                                    !.error = "Comment validation failed"]
                     /\ UNCHANGED <<comments, nextId>>
                ELSE LET comment == [_id |-> <<"Comment", nextId>>,
                                     content |-> content, author |-> g.userId,
                                     post |-> postId]
                     IN /\ nextId <= MaxDocs
                        /\ comments' = Append(comments, comment)
                        /\ nextId' = nextId + 1
                        /\ last' = [Entered(route, header) EXCEPT !.status = 201,
                                       !.id = postId, !.doc = comment]
          /\ UNCHANGED <<universities, users, posts, workshops, messages,
                         inflight, tokens, now>>

(***************************************************************************)
(* POST /api/messages, GET /api/messages/:userId                           *)
(***************************************************************************)
SendMessage(header) ==
    LET g == authMiddleware(header, now)
        route == "POST messages"
    IN \/ Denied(route, header, g)
       \/ /\ g.next
          /\ \E receiverId \in {UserId(1), MalformedId}, content \in {"m1", Undefined} :
                IF ~WellFormed(receiverId) \/ content = Undefined
                THEN /\ last' = [Entered(route, header) EXCEPT !.id = receiverId,
                                    !.status = 500,
                                    !.error = "Message validation failed"]
                     /\ UNCHANGED <<messages, nextId>>
                ELSE LET message == [_id |-> <<"Message", nextId>>,
                                     content |-> content, sender |-> g.userId,
                                     receiver |-> receiverId, read |-> FALSE]
                     IN /\ nextId <= MaxDocs
                        /\ messages' = Append(messages, message)
                        /\ nextId' = nextId + 1
                        /\ last' = [Entered(route, header) EXCEPT !.status = 201,
                                       !.id = receiverId, !.doc = message]
          /\ UNCHANGED <<universities, users, posts, workshops, comments,
                         inflight, tokens, now>>

\* Message.find({$or: [...]}).sort({createdAt: -1}): newest first.
GetMessages(header) ==
    LET g == authMiddleware(header, now)
        route == "GET messages"
    IN \/ Denied(route, header, g)
       \/ /\ g.next
          /\ \E userId \in UserIdParams :
                IF ~WellFormed(userId)
                THEN last' = CastError(route, header, userId)
                ELSE last' = [Entered(route, header) EXCEPT !.id = userId,
                                 !.results = Reverse(SelectSeq(messages, LAMBDA m :
                                     \/ m.sender = g.userId /\ m.receiver = userId
                                     \/ m.sender = userId /\ m.receiver = g.userId))]
          /\ UNCHANGED <<store, nextId, inflight, tokens, now>>

(***************************************************************************)
(* POST /api/workshops, POST /api/workshops/:workshopId/register           *)
(***************************************************************************)
CreateWorkshop(header) ==
    LET g == authMiddleware(header, now)
        route == "POST workshops"
        user == FindById(users, g.userId)
    IN \/ Denied(route, header, g)
       \/ /\ g.next
          /\ \E title \in Titles :
                IF user = NullDoc
                THEN /\ last' = [Entered(route, header) EXCEPT !.status = 500,
                                    !.error = "Cannot read properties of null"]
                     /\ UNCHANGED <<workshops, nextId>>
                ELSE IF title = Undefined
                THEN /\ last' = [Entered(route, header) EXCEPT !.status = 500,
                                    !.error = "Workshop validation failed"]
                     /\ UNCHANGED <<workshops, nextId>>
                ELSE LET workshop == [_id |-> WorkshopId(nextId), title |-> title,
                                      creator |-> g.userId,
                                      university |-> user.university,
                                      attendees |-> <<>>]
                     IN /\ nextId <= MaxDocs
                        /\ workshops' = Append(workshops, workshop)
                        /\ nextId' = nextId + 1
                        /\ last' = [Entered(route, header) EXCEPT !.status = 201,
                                       !.id = workshop._id, !.doc = workshop]
          /\ UNCHANGED <<universities, users, posts, comments, messages,
                         inflight, tokens, now>>

RegisterForWorkshop(header) ==
    LET g == authMiddleware(header, now)
        route == "POST workshops/register"
    IN \/ Denied(route, header, g)
       \/ /\ g.next
          /\ \E workshopId \in WorkshopIdParams :
                IF ~WellFormed(workshopId)
                THEN /\ last' = CastError(route, header, workshopId)
                     /\ UNCHANGED workshops
                ELSE /\ FindById(workshops, workshopId) # NullDoc =>
                           Len(FindById(workshops, workshopId).attendees) < MaxDocs
                     /\ workshops' =
                           [i \in DOMAIN workshops |->
                               IF workshops[i]._id = workshopId
                               THEN [workshops[i] EXCEPT
                                        !.attendees = Append(@, g.userId)]
                               ELSE workshops[i]]
                     /\ last' = [Entered(route, header) EXCEPT !.id = workshopId,
                                    !.doc = FindById(workshops', workshopId)]
          /\ UNCHANGED <<universities, users, posts, comments, messages,
                         nextId, inflight, tokens, now>>

(***************************************************************************)
(* GET /api/users/directory/:universityId                                  *)
(***************************************************************************)
\* The query: the institution, status approved, and the year when given.
DirectoryMatchAnyStatus(u, universityId, graduationYear) ==
    /\ u.university = universityId
    /\ graduationYear # <<>> => u.graduationYear = parseInt(graduationYear)
DirectoryMatch(u, universityId, graduationYear) ==
    /\ u.university = universityId
    /\ u.status = "approved"
    /\ graduationYear # <<>> => u.graduationYear = parseInt(graduationYear)

\* .select('name email company designation currentCity graduationYear ...')
Select(u) == [_id |-> u._id, email |-> u.email, graduationYear |-> u.graduationYear]

\* .limit(n)
Limit(s, n) == SubSeq(s, 1, Min(Len(s), n))

Directory(universityId, graduationYear) ==
    LET route == "GET users/directory"
        base == [Blank EXCEPT !.route = route, !.entered = TRUE, !.id = universityId,
                              !.input = graduationYear]
        matched == SelectSeq(users, LAMBDA u :
                                DirectoryMatch(u, universityId, graduationYear))
    IN /\ IF ~WellFormed(universityId)
          THEN last' = [base EXCEPT !.status = 500, !.error = "Cast to ObjectId failed"]
          ELSE IF graduationYear # <<>> /\ parseInt(graduationYear) = NaN
          THEN last' = [base EXCEPT !.status = 500, !.error = "Cast to Number failed"]
          ELSE last' = [base EXCEPT !.status = 200,
                           !.results = Limit([i \in DOMAIN matched |-> Select(matched[i])],
                                             DirectoryLimit)]
       /\ UNCHANGED <<store, nextId, inflight, tokens, now>>

(***************************************************************************)
(* The member-facing routes: accounts, approval, content.  One member      *)
(* account is enough to reach every handler.                               *)
(***************************************************************************)
Next ==
    \/ \E body \in SignupBodies :
            body.email # "b@x" /\ body.university = UniversityId(1) /\ Signup(body)
    \/ \E email \in Emails, password \in Passwords \cup {Undefined} :
            Login(email, password)
    \/ \E header \in Headers : GetProfile(header)
    \/ \E header \in Headers : UpdateProfile(header, ProfileBodies)
    \/ \E header \in Headers : PendingApprovals(header)
    \/ \E header \in Headers : ApproveUser(header)
    \/ \E header \in Headers : RejectUser(header)
    \/ \E header \in Headers : CreatePost(header)
    \/ \E header \in Headers : UpdatePost(header)
    \/ \E header \in Headers : DeletePost(header)
    \/ \E header \in Headers : CreateComment(header)
    \/ \E header \in Headers : SendMessage(header)
    \/ \E header \in Headers : GetMessages(header)
    \/ \E header \in Headers : CreateWorkshop(header)
    \/ \E header \in Headers : RegisterForWorkshop(header)

Spec == Init /\ [][Next]_vars

(***************************************************************************)
(* The same routes while the clock runs, so that issued tokens expire.     *)
(***************************************************************************)
NextExpiry ==
    \/ Next
    \/ Tick

SpecExpiry == Init /\ [][NextExpiry]_vars

(***************************************************************************)
(* The account lifecycle with two members.                                 *)
(***************************************************************************)
NextAccount ==
    \/ \E body \in SignupBodies : Signup(body)
    \/ \E email \in Emails, password \in Passwords \cup {Undefined} :
            Login(email, password)
    \/ \E header \in Headers : GetProfile(header)
    \/ \E header \in Headers : UpdateProfile(header, ProfileBodies)
    \/ \E header \in Headers : PendingApprovals(header)
    \/ \E header \in Headers : ApproveUser(header)
    \/ \E header \in Headers : RejectUser(header)

SpecAccount == Init /\ [][NextAccount]_vars

(***************************************************************************)
(* Concurrent institution registrations.                                   *)
(***************************************************************************)
NextRegister ==
    \/ \E name \in Names, email \in Emails \cup {Undefined},
          password \in {"p1", Undefined} :
            RegisterBegin(name, email, password)
    \/ \E req \in BagToSet(inflight) : RegisterSave(req)
    \/ \E email \in Emails, password \in Passwords \cup {Undefined} :
            UniversityLogin(email, password)

SpecRegister == Init /\ [][NextRegister]_vars

(***************************************************************************)
(* The directory over a populated store: the members that earlier signups, *)
(* profile updates and approvals left behind, up to MaxBulk of them.       *)
(***************************************************************************)
BulkSizes == (0..2) \cup (DirectoryLimit..MaxBulk)

BulkUser(i, pattern) ==
    [_id |-> UserId(i), email |-> ToString(i), password |-> Digest("p1"),
     university |-> IF pattern = "uniform" \/ i % 2 = 1
                    THEN UniversityId(1) ELSE UniversityId(2),
     status |-> IF pattern = "uniform" \/ i % 3 = 1 THEN "approved"
                ELSE IF i % 3 = 2 THEN "pending" ELSE "rejected",
     graduationYear |-> IF pattern = "uniform" \/ i % 4 = 1 THEN Num(11)
                        ELSE IF i % 4 = 2 THEN Num(1) ELSE Null]

InitDirectory ==
    /\ \E n \in BulkSizes, pattern \in {"uniform", "mixed"} :
          /\ users = [i \in 1..n |-> BulkUser(i, pattern)]
          /\ tokens = IF n = 0 THEN {} ELSE {generateToken(UserId(1), 0)}
    /\ universities = <<>>
    /\ posts = <<>>
    /\ workshops = <<>>
    /\ comments = <<>>
    /\ messages = <<>>
    /\ nextId = 1
    /\ inflight = EmptyBag
    /\ now = 0
    /\ last = Blank

NextDirectory ==
    \/ \E universityId \in UniversityRefs \cup {MalformedId},
          graduationYear \in YearInputs :
            Directory(universityId, graduationYear)
    \/ \E header \in Headers : ApproveUser(header)
    \/ \E header \in Headers : RejectUser(header)

SpecDirectory == InitDirectory /\ [][NextDirectory]_vars

(***************************************************************************)
(* Properties.  A step with now' = now is a request being answered, and    *)
(* last' is that request and its response.                                 *)
(***************************************************************************)
GuardedRoutes ==
    {"GET user/profile", "PUT user/profile", "POST posts", "PUT posts",
     "DELETE posts", "POST comments", "POST messages", "GET messages",
     "GET admin/pending-approvals", "PUT admin/approve-user",
     "PUT admin/reject-user", "POST workshops", "POST workshops/register"}

CarriesNoToken(header) ==
    header.absent \/ Len(header.parts) < 2 \/ header.parts[2].kind = "empty"

CarriesValidToken(header, t) ==
    /\ ~CarriesNoToken(header)
    /\ header.parts[2].kind = "jwt"
    /\ header.parts[2].sig = "ok"
    /\ t < header.parts[2].exp

\* C1: on every guarded route the handler is entered, and the store written,
\* only when the request carries a correctly signed, unexpired token; with no
\* token the answer is 401 "No token provided", with an invalid or expired one
\* 401 "Invalid token", and in both cases the store is unchanged and the
\* handler is not entered.
C1_GateGuardsHandlers ==
    [][(now' = now /\ last'.route \in GuardedRoutes) =>
          /\ last'.entered => CarriesValidToken(last'.header, now)
          /\ store' # store => CarriesValidToken(last'.header, now)
          /\ CarriesNoToken(last'.header) =>
                /\ last'.status = 401
                /\ last'.error = "No token provided"
                /\ ~last'.entered
                /\ store' = store
          /\ (~CarriesNoToken(last'.header)
              /\ ~CarriesValidToken(last'.header, now)) =>
                /\ last'.status = 401
                /\ last'.error = "Invalid token"
                /\ ~last'.entered
                /\ store' = store]_vars

\* A correctly signed token, past its expiry, was refused on a guarded route.
C1_Witness ==
    /\ last.route \in GuardedRoutes
    /\ last.status = 401
    /\ last.error = "Invalid token"
    /\ ~last.entered
    /\ ~CarriesNoToken(last.header)
    /\ last.header.parts[2].kind = "jwt"
    /\ last.header.parts[2].sig = "ok"
    /\ last.header.parts[2].exp <= now

Known(email) == \E i \in DOMAIN users : users[i].email = email
Member(email) == CHOOSE i \in DOMAIN users : users[i].email = email
Verifies(email, password) ==
    /\ Known(email)
    /\ password # Undefined
    /\ users[Member(email)].password.of = password

\* C2: member login answers 401 "Invalid credentials" for an unknown email or
\* a wrong password, whatever the member's status; 403 "Your account has been
\* rejected" exactly when the email exists, the password verifies and the
\* status is rejected; no token is issued in either case.
C2_CredentialsBeforeStatus ==
    [][(now' = now /\ last'.route = "auth/login") =>
          /\ (\/ ~Known(last'.email)
              \/ /\ last'.password # Undefined
                 /\ ~Verifies(last'.email, last'.password)) =>
                /\ last'.status = 401
                /\ last'.error = "Invalid credentials"
                /\ last'.issued = NoToken
                /\ tokens' = tokens
          /\ last'.status = 403 <=>
                /\ Verifies(last'.email, last'.password)
                /\ users[Member(last'.email)].status = "rejected"
          /\ last'.status = 403 =>
                /\ last'.error = "Your account has been rejected"
                /\ last'.issued = NoToken
                /\ tokens' = tokens]_vars

\* A rejected member's login with a wrong password was answered 401.
C2_Witness ==
    /\ last.route = "auth/login"
    /\ last.status = 401
    /\ Known(last.email)
    /\ last.password # Undefined
    /\ ~Verifies(last.email, last.password)
    /\ users[Member(last.email)].status = "rejected"

\* C3: a member's status changes only from pending to approved or from
\* pending to rejected.
C3_StatusOnlyLeavesPending ==
    [][\A i \in DOMAIN users :
          users'[i].status # users[i].status =>
             /\ users[i].status = "pending"
             /\ users'[i].status \in {"approved", "rejected"}]_vars

\* C4: every successful signup stores the new member with status pending,
\* whatever the body carries, and no member is created in another status.
C4_SignupForcesPending ==
    [][/\ \A i \in DOMAIN users' \ DOMAIN users : users'[i].status = "pending"
       /\ (now' = now /\ last'.route = "auth/signup" /\ last'.status = 201) =>
             /\ Len(users') = Len(users) + 1
             /\ users'[Len(users')] = last'.doc
             /\ last'.doc.status = "pending"]_vars

\* A signup whose body carried status "approved" succeeded and the stored
\* member is pending.
C4_Witness ==
    /\ last.route = "auth/signup"
    /\ last.status = 201
    /\ last.input = "approved"
    /\ FindById(users, last.doc._id) # NullDoc
    /\ FindById(users, last.doc._id).status = "pending"

\* The slug of each name of Names, worked out by hand: lowercase, each run of
\* whitespace replaced by one underscore.
ExpectedSlug(name) ==
    CASE name = <<"A">> -> <<"a">>
      [] name = <<"a">> -> <<"a">>
      [] name = <<"A", " ", "a">> -> <<"a", "_", "a">>
      [] name = <<"a", " ", " ", "A">> -> <<"a", "_", "a">>
      [] name = <<"a", "_", "a">> -> <<"a", "_", "a">>
      [] OTHER -> <<>>

\* C5: under any interleaving of registrations no two stored institutions
\* share an email or a slug, and a registration whose email or derived slug
\* is already stored is answered with an error, creates no record and issues
\* no token.
C5_NoDuplicateInstitutions ==
    /\ [](\A i, j \in DOMAIN universities :
             /\ universities[i].slug = ExpectedSlug(universities[i].name)
             /\ i # j => /\ universities[i].email # universities[j].email
                         /\ universities[i].slug # universities[j].slug)
    /\ [][(/\ BagCardinality(inflight') < BagCardinality(inflight)
           /\ \E i \in DOMAIN universities :
                 \/ universities[i].email = last'.email
                 \/ universities[i].slug = ExpectedSlug(last'.input)) =>
             /\ last'.route = "university/register"
             /\ last'.status = 500
             /\ last'.issued = NoToken
             /\ universities' = universities
             /\ tokens' = tokens]_vars

\* A registration under a new name and a new email was refused because its
\* slug is that of a stored institution.
C5_Witness ==
    /\ last.route = "university/register"
    /\ last.status = 500
    /\ \E i \in DOMAIN universities :
          /\ universities[i].slug = ExpectedSlug(last.input)
          /\ universities[i].name # last.input
          /\ universities[i].email # last.email

\* C6: the institution of a stored post or event never changes.
C6_InstitutionFixed ==
    [][/\ \A i \in DOMAIN posts, j \in DOMAIN posts' :
             posts[i]._id = posts'[j]._id =>
                posts[i].university = posts'[j].university
       /\ \A i \in DOMAIN workshops, j \in DOMAIN workshops' :
             workshops[i]._id = workshops'[j]._id =>
                workshops[i].university = workshops'[j].university]_vars

\* C7: a signup leaves the member pending; a login of a pending member with
\* the right password succeeds with a token the gate accepts for that member;
\* a profile fetch that follows an approval of the member shows approved.
C7_Lifecycle ==
    [][now' = now =>
          /\ (last'.route = "auth/signup" /\ last'.status = 201) =>
                users'[Len(users')].status = "pending"
          /\ (/\ last'.route = "auth/login"
              /\ Verifies(last'.email, last'.password)
              /\ users[Member(last'.email)].status = "pending") =>
                /\ last'.status = 200
                /\ authMiddleware(Bearer(last'.issued), now).next
                /\ authMiddleware(Bearer(last'.issued), now).userId =
                      users[Member(last'.email)]._id
          /\ (/\ last.route = "PUT admin/approve-user"
              /\ last.status = 200
              /\ last.doc # NullDoc
              /\ last'.route = "GET user/profile"
              /\ last'.entered
              /\ last'.id = last.id) =>
                /\ last'.doc # NullDoc
                /\ last'.doc.status = "approved"]_vars

\* A member fetched their own profile and it shows approved.
C7_Witness ==
    /\ last.route = "GET user/profile"
    /\ last.entered
    /\ last.doc # NullDoc
    /\ last.doc.status = "approved"
    /\ last.doc._id = last.header.parts[2].userId

DigitChar(d) ==
    CASE d = 0 -> "0" [] d = 1 -> "1" [] d = 2 -> "2" [] d = 3 -> "3" [] d = 4 -> "4"
      [] d = 5 -> "5" [] d = 6 -> "6" [] d = 7 -> "7" [] d = 8 -> "8" [] d = 9 -> "9"
Decimal(y) ==
    IF y < 10 THEN <<DigitChar(y)>> ELSE <<DigitChar(y \div 10), DigitChar(y % 10)>>

\* C8: a directory search for institution U returns at most 50 members, each
\* approved and of U, and with a graduationYear filter y each of year y.
C8_DirectoryOnlyApproved ==
    [][last'.route = "GET users/directory" =>
          /\ Len(last'.results) <= 50
          /\ \A k \in DOMAIN last'.results :
                LET m == FindById(users, last'.results[k]._id)
                IN /\ m # NullDoc
                   /\ m.status = "approved"
                   /\ m.university = last'.id
                   /\ \A y \in 0..11 :
                         last'.input = Decimal(y) => m.graduationYear = Num(y)]_vars

\* More than 50 approved members of the institution have the year asked for,
\* and 50 were returned.
C8_Witness ==
    /\ last.route = "GET users/directory"
    /\ last.input = Decimal(11)
    /\ Len(last.results) = 50
    /\ Cardinality({i \in DOMAIN users :
                       /\ users[i].status = "approved"
                       /\ users[i].university = last.id
                       /\ users[i].graduationYear = Num(11)}) > 50

\* C9: a post update, post delete, approve or reject that names a well-formed
\* id of no stored record is answered with success (and a null record) and
\* changes nothing in the store.
C9_MissingIdSucceeds ==
    [][(/\ now' = now
        /\ last'.entered
        /\ last'.route \in {"PUT posts", "DELETE posts", "PUT admin/approve-user",
                            "PUT admin/reject-user"}
        /\ WellFormed(last'.id)
        /\ FindById(IF last'.route \in {"PUT posts", "DELETE posts"}
                    THEN posts ELSE users, last'.id) = NullDoc) =>
          /\ last'.status = 200
          /\ last'.error = ""
          /\ last'.doc = NullDoc
          /\ store' = store]_vars

\* The one post ever created had been deleted, and an update of its id was
\* answered with success and a null post.
C9_Witness ==
    /\ last.route = "PUT posts"
    /\ last.entered
    /\ last.status = 200
    /\ last.doc = NullDoc
    /\ last.id = PostId(1)
    /\ posts = <<>>
    /\ nextId = 2
    /\ workshops = <<>> /\ comments = <<>> /\ messages = <<>>

\* C10: the gate lets every correctly signed, unexpired token through,
\* whatever the status of the member it names, so a rejected member still
\* enters every guarded handler; and once approve-user has succeeded on a
\* member, that member's login with the right password succeeds.
C10_TokenOutlivesRejection ==
    [][now' = now =>
          /\ (/\ last'.route \in GuardedRoutes
              /\ CarriesValidToken(last'.header, now)) => last'.entered
          /\ (/\ last.route = "PUT admin/approve-user"
              /\ last.status = 200
              /\ last.doc # NullDoc
              /\ last'.route = "auth/login"
              /\ last'.email = last.doc.email
              /\ last'.password = last.doc.password.of) =>
                /\ last'.status = 200
                /\ last'.issued.kind = "jwt"]_vars

\* A member who is rejected created a post with their token.
C10_Witness ==
    /\ last.route = "POST posts"
    /\ last.entered
    /\ last.status = 201
    /\ last.doc.author = last.header.parts[2].userId
    /\ FindById(users, last.doc.author).status = "rejected"

====
